---------------------------- MODULE Spec2Model ----------------------------
(***************************************************************************)
(* A model of the AMQP broker of machinery (v1/brokers/amqp.go):           *)
(* StartConsuming / consume / StopConsuming on the consumer side, Publish  *)
(* on the producer side, open and close shared by both.  The AMQP server   *)
(* (queue, un-acked deliveries, requeue on channel loss) is the            *)
(* environment of the code and is modelled next to it.  The worker behind  *)
(* the TaskProcessor interface (Process, the result backend, chains) is    *)
(* modelled as the design document and the README describe it.             *)
(***************************************************************************)
EXTENDS Integers, Sequences, FiniteSets, TLC

(* ------------------------------ bounds --------------------------------- *)
\* messages that ever reach the queue
MaxMsgs == 4
\* calls of StartConsuming (first call, retries by the harness, restarts)
MaxRuns == 2
\* calls of StopConsuming
MaxStops == 1
\* crashes of the worker process
MaxCrashes == 1
\* calls of Publish
MaxPublish == 2
\* links of the chain the worker runs
ChainLen == 3
\* error callbacks of one signature
MaxOnError == 2

(* ------------------------- program constants --------------------------- *)
\* channel.Qos(3, 0, false): the prefetch count
PrefetchCount == 3

Msgs == 1..MaxMsgs
NoMsg == 0

\* the two calls that open a connection: StartConsuming and Publish
SC == "StartConsuming"
PB == "Publish"
Callers == {SC, PB}

VARIABLES
    (* the AMQP server *)
    queue,       \* ready messages of the default queue, head first
    unacked,     \* messages delivered to the consumer and not yet acked/nacked
    arrived,     \* number of messages that reached the queue so far
    valid,       \* valid[m]: the body of m decodes as a TaskSignature
    consuming,   \* a consumer is registered on the channel
    (* a call of StartConsuming or Publish *)
    pc,          \* pc[c]: position of call c
    conn,        \* conn[c]: the *amqp.Connection of call c
    channel,     \* channel[c]: the *amqp.Channel of call c
    err,         \* err[c]: the error call c returns ("nil" for none)
    retry,       \* the bool StartConsuming returns
    runs,        \* calls of StartConsuming so far
    crashes,     \* crashes of the worker process so far
    (* consume *)
    deliveries,  \* the deliveries channel: prefetched, not yet taken by the loop
    d,           \* the delivery consumeOne is working on (NoMsg for none)
    acks,        \* acks[m]: how many times d.Ack was issued for m
    nacks,       \* nacks[m]: how many times d.Nack was issued for m
    requeued,    \* messages nacked with requeue = true
    started,     \* messages handed to taskProcessor.Process
    done,        \* messages for which Process has returned
    handled,     \* deliveries for which consumeOne has returned
    lost,        \* acked messages whose Process a crash cut short
    (* StopConsuming *)
    stopCap,     \* capacity of stopChan (the caller makes the channel)
    stopBuf,     \* tokens in the buffer of stopChan
    stopBlocked, \* StopConsuming calls blocked in the send
    stopCalls,   \* calls of StopConsuming so far
    stopReturned,\* calls of StopConsuming that have returned
    stopsTaken,  \* consume loops that left through the stop case
    (* Publish *)
    ExchangeType,\* config.ExchangeType
    given,       \* the RoutingKey of the signature as the caller passed it
    signature,   \* the caller's *TaskSignature: its RoutingKey, and whether it encodes
    message,     \* the body json.Marshal made: the signature as it was then
    wire,        \* messages handed to the exchange: routing key and body, with
                 \* the key the caller gave and the number of the call
    pubs         \* calls of Publish so far

VARIABLES
    chain,       \* the chain as NewChain composed it: one record per link
    body,        \* per message, the signature its body encodes (UUID, Args)
    delivered,   \* per message, whether the server pushed it once or again
    wpc,         \* where the worker's Process is
    todo,        \* continuations Process has still to publish
    outcome,     \* the value or the error of the task Process invoked
    state,       \* result backend: the state recorded per task UUID
    result,      \* result backend: the result or error recorded per task UUID
    seen         \* per task UUID, the argument lists the task was invoked with

brokerVars == <<queue, unacked, arrived, valid, consuming>>
callVars == <<pc, conn, channel, err, retry, runs, crashes>>
loopVars == <<deliveries, d, acks, nacks, requeued, started, done, handled, lost>>
stopVars == <<stopCap, stopBuf, stopBlocked, stopCalls, stopReturned, stopsTaken>>
pubVars == <<ExchangeType, given, signature, message, wire, pubs>>
workVars == <<chain, body, delivered, wpc, todo, outcome, state, result, seen>>
vars == <<brokerVars, callVars, loopVars, stopVars, pubVars, workVars>>

(* ------------------------------ helpers -------------------------------- *)
Min(S) == CHOOSE x \in S : \A y \in S : x <= y

RECURSIVE SortedSeq(_)
SortedSeq(S) == IF S = {} THEN <<>> ELSE <<Min(S)>> \o SortedSeq(S \ {Min(S)})

SeqSet(s) == {s[i] : i \in 1..Len(s)}

\* the server puts released (un-acked) messages back, in their original order
Requeue(S) == SortedSeq(S \cup SeqSet(queue))

\* tokens a receive on stopChan can take: buffered ones and blocked senders
StopTokens == stopBuf + stopBlocked

\* config: the exchange types of AMQP, the binding key and the queue name
ExchangeTypes == {"direct", "topic", "fanout"}
BindingKey == "binding_key"
DefaultQueue == "default_queue"

\* signature.RoutingKey as the caller of Publish may set it
RoutingKeys == {"", "custom_key"}
NoSignature == [RoutingKey |-> "", encodes |-> TRUE]
NoMessage == [RoutingKey |-> "none"]

(* ------------------- signatures, tasks and chains ---------------------- *)
\* type TaskArg struct { Type string; Value interface{} }: a value is an
\* integer or a string, as its Type says
Int64Arg(n) == [Type |-> "int64", Int |-> n, Str |-> ""]
StringArg(s) == [Type |-> "string", Int |-> 0, Str |-> s]
\* a nil *TaskResult
NoResult == [Type |-> "", Int |-> 0, Str |-> ""]

\* the task states
PendingState == "PENDING"
ReceivedState == "RECEIVED"
StartedState == "STARTED"
SuccessState == "SUCCESS"
FailureState == "FAILURE"

\* the tasks registered with the server before the worker starts: add and
\* multiply of int64 values, a task that returns an error, and the task the
\* error callbacks name, which takes strings
Registry == {"add", "multiply", "fail", "log"}
ParamType(name) == IF name = "log" THEN "string" ELSE "int64"

\* the errors Process records
ErrNotRegistered == "Task not registered"
ErrWrongArgType == "WrongArgType"
ErrTask == "task failed"

\* UUIDs: link k of the chain has k, and the error callbacks of the links
\* follow the links
Links == 1..ChainLen
OnErrorUUID(k, j) == ChainLen + (k - 1) * MaxOnError + j
UUIDs == 1..(ChainLen + ChainLen * MaxOnError)

\* The chain of the README, for any length: add(1, 1), add(5, 6), ...,
\* multiply(4).
BaseName(k) == IF k = ChainLen THEN "multiply" ELSE "add"
BaseArgs(k) ==
    IF k = 1 THEN <<Int64Arg(1), Int64Arg(1)>>
    ELSE IF k = ChainLen THEN <<Int64Arg(4)>>
    ELSE <<Int64Arg(5), Int64Arg(6)>>

\* the ways a link can be made to fail: a name that is not registered, an
\* argument of the wrong type, a task that returns an error
FailKinds == {"unregistered", "badArgs", "fails"}

\* Link k as the caller composed it: the link failAt fails in the way kind
\* says and has nErr error callbacks, the link immAt is immutable.
Link(k, failAt, kind, immAt, nErr) ==
    [Name |-> IF k = failAt /\ kind = "unregistered" THEN "nope"
              ELSE IF k = failAt /\ kind = "fails" THEN "fail"
              ELSE BaseName(k),
     Args |-> IF k = failAt /\ kind = "badArgs"
              THEN <<StringArg("x")>> \o Tail(BaseArgs(k))
              ELSE BaseArgs(k),
     Immutable |-> (k = immAt),
     OnError |-> [j \in 1..(IF k = failAt THEN nErr ELSE 1) |-> OnErrorUUID(k, j)]]

\* The chains the worker is given: no link fails, or one does; no link is
\* immutable, or one before the tail is.  Every message of the chain finds
\* room among the messages.
Chains ==
    {[k \in Links |-> Link(k, t[1], t[2], t[3], t[4])] :
        t \in {u \in (0..ChainLen) \X FailKinds \X (0..(ChainLen - 1)) \X (1..MaxOnError) :
                  u[1] + u[4] <= MaxMsgs}}

NoBody == [UUID |-> 0, Args |-> <<>>]
NoOutcome == [Error |-> "", Value |-> NoResult]

\* no message carries a signature, Process is not running, the backend has
\* no record (every task is PENDING)
WorkerAtRest ==
    /\ body = [m \in Msgs |-> NoBody]
    /\ delivered = [m \in Msgs |-> 0]
    /\ wpc = "idle"
    /\ todo = <<>>
    /\ outcome = NoOutcome
    /\ state = [u \in UUIDs |-> PendingState]
    /\ result = [u \in UUIDs |-> NoResult]
    /\ seen = [u \in UUIDs |-> {}]

(* ------------------------------- Init ---------------------------------- *)
\* NewAMQPBroker keeps the config and the stop channel it is given; nothing
\* is open yet.
NewAMQPBroker ==
    /\ queue = <<>>
    /\ unacked = {}
    /\ arrived = 0
    /\ valid = [m \in Msgs |-> TRUE]
    /\ consuming = FALSE
    /\ pc = [c \in Callers |-> "idle"]
    /\ conn = [c \in Callers |-> "nil"]
    /\ channel = [c \in Callers |-> "nil"]
    /\ err = [c \in Callers |-> "nil"]
    /\ retry = FALSE
    /\ runs = 0
    /\ crashes = 0
    /\ deliveries = <<>>
    /\ d = NoMsg
    /\ acks = [m \in Msgs |-> 0]
    /\ nacks = [m \in Msgs |-> 0]
    /\ requeued = {}
    /\ started = {}
    /\ done = {}
    /\ handled = {}
    /\ lost = {}
    /\ stopBuf = 0
    /\ stopBlocked = 0
    /\ stopCalls = 0
    /\ stopReturned = 0
    /\ stopsTaken = 0
    /\ given = ""
    /\ signature = NoSignature
    /\ message = NoMessage
    /\ wire = <<>>
    /\ pubs = 0

\* The consumer side: the stop channel is the caller's, unbuffered or
\* buffered; the exchange type plays no part in consuming.
Init ==
    /\ NewAMQPBroker
    /\ stopCap \in {0, 1}
    /\ ExchangeType = "direct"
    /\ chain = <<>>
    /\ WorkerAtRest

\* The producer side: any exchange type; the stop channel plays no part.
InitPublish ==
    /\ NewAMQPBroker
    /\ stopCap = 0
    /\ ExchangeType \in ExchangeTypes
    /\ chain = <<>>
    /\ WorkerAtRest

\* The worker: a consumer on an unbuffered stop channel, given a chain
\* that NewChain composed.
InitWorker ==
    /\ NewAMQPBroker
    /\ stopCap = 0
    /\ ExchangeType = "direct"
    /\ chain \in Chains
    /\ WorkerAtRest

(* ---------------------------- open, close ------------------------------ *)
\* amqp.Dial(cnf.Broker)
openDial(c, ok) ==
    /\ pc[c] = "dial"
    /\ IF ok
       THEN /\ conn' = [conn EXCEPT ![c] = "open"]
            /\ pc' = [pc EXCEPT ![c] = "channel"]
            /\ err' = err
       ELSE /\ conn' = conn
            /\ pc' = [pc EXCEPT ![c] = "openFailed"]
            /\ err' = [err EXCEPT ![c] = "Dial"]
    /\ UNCHANGED <<channel, retry, runs, crashes, brokerVars, loopVars, stopVars, pubVars>>
    /\ UNCHANGED workVars

\* conn.Channel()
openChannel(c, ok) ==
    /\ pc[c] = "channel"
    /\ IF ok
       THEN /\ channel' = [channel EXCEPT ![c] = "open"]
            /\ pc' = [pc EXCEPT ![c] = "declare"]
            /\ err' = err
       ELSE /\ channel' = channel
            /\ pc' = [pc EXCEPT ![c] = "openFailed"]
            /\ err' = [err EXCEPT ![c] = "Channel"]
    /\ UNCHANGED <<conn, retry, runs, crashes, brokerVars, loopVars, stopVars, pubVars>>
    /\ UNCHANGED workVars

\* channel.ExchangeDeclare, channel.QueueDeclare, channel.QueueBind: each
\* failure returns the same way, with conn and channel left as they are
openDeclare(c, ok) ==
    /\ pc[c] = "declare"
    /\ IF ok
       THEN /\ pc' = [pc EXCEPT ![c] = "opened"]
            /\ err' = err
       ELSE /\ pc' = [pc EXCEPT ![c] = "openFailed"]
            /\ err' = [err EXCEPT ![c] = "Declare"]
    /\ UNCHANGED <<conn, channel, retry, runs, crashes, brokerVars, loopVars, stopVars, pubVars>>
    /\ UNCHANGED workVars

\* close: channel.Close(); on its error close returns, conn.Close() is not
\* reached.  A Close that fails finds the channel already gone (closed by
\* the server or with the transport).  Either way the server cancels the
\* consumer of the channel and returns its un-acked deliveries to the queue.
closeChannel(c, ok) ==
    /\ pc[c] = "close"
    /\ channel' = [channel EXCEPT ![c] = IF ok THEN "closed" ELSE "broken"]
    /\ pc' = [pc EXCEPT ![c] = IF ok THEN "closeConn" ELSE "ret"]
    /\ IF c = SC
       THEN /\ queue' = Requeue(unacked)
            /\ unacked' = {}
            /\ consuming' = FALSE
            /\ deliveries' = <<>>
       ELSE UNCHANGED <<queue, unacked, consuming, deliveries>>
    /\ UNCHANGED <<conn, err, retry, runs, crashes, arrived, valid, stopVars,
                   d, acks, nacks, requeued, started, done, handled, lost, pubVars>>
    /\ UNCHANGED workVars

\* close: conn.Close(); the error of close is dropped by the defer
closeConn(c, ok) ==
    /\ pc[c] = "closeConn"
    /\ conn' = [conn EXCEPT ![c] = IF ok THEN "closed" ELSE "broken"]
    /\ pc' = [pc EXCEPT ![c] = "ret"]
    /\ UNCHANGED <<channel, err, retry, runs, crashes, brokerVars, loopVars, stopVars, pubVars>>
    /\ UNCHANGED workVars

(* --------------------------- StartConsuming ---------------------------- *)
\* A call of StartConsuming: the first one, or the harness calling again
\* after a return or after the worker process was started anew.
StartConsuming ==
    /\ pc[SC] \in {"idle", "ret", "crashed"}
    /\ runs < MaxRuns
    /\ runs' = runs + 1
    /\ pc' = [pc EXCEPT ![SC] = "dial"]
    /\ conn' = [conn EXCEPT ![SC] = "nil"]
    /\ channel' = [channel EXCEPT ![SC] = "nil"]
    /\ err' = [err EXCEPT ![SC] = "nil"]
    /\ retry' = FALSE
    /\ UNCHANGED <<crashes, brokerVars, loopVars, stopVars, pubVars>>
    /\ UNCHANGED workVars

\* The harness around StartConsuming: it calls StartConsuming again whenever
\* the call returned with the retry flag true.
HarnessRetry ==
    /\ pc[SC] = "ret"
    /\ retry
    /\ pc' = [pc EXCEPT ![SC] = "dial"]
    /\ conn' = [conn EXCEPT ![SC] = "nil"]
    /\ channel' = [channel EXCEPT ![SC] = "nil"]
    /\ err' = [err EXCEPT ![SC] = "nil"]
    /\ retry' = FALSE
    /\ UNCHANGED <<runs, crashes, brokerVars, loopVars, stopVars, pubVars>>
    /\ UNCHANGED workVars

\* if err != nil { return true, err }: before the defer, so nothing is closed
StartConsumingOpenFailed ==
    /\ pc[SC] = "openFailed"
    /\ retry' = TRUE
    /\ pc' = [pc EXCEPT ![SC] = "ret"]
    /\ UNCHANGED <<conn, channel, err, runs, crashes, brokerVars, loopVars,
                   stopVars, pubVars>>
    /\ UNCHANGED workVars

\* channel.Qos(3, 0, false); on error return false, err (the defer closes)
channelQos(ok) ==
    /\ pc[SC] = "opened"
    /\ IF ok
       THEN /\ pc' = [pc EXCEPT ![SC] = "consume"]
            /\ UNCHANGED <<err, retry>>
       ELSE /\ pc' = [pc EXCEPT ![SC] = "close"]
            /\ err' = [err EXCEPT ![SC] = "Qos"]
            /\ retry' = FALSE
    /\ UNCHANGED <<conn, channel, runs, crashes, brokerVars, loopVars, stopVars,
                   pubVars>>
    /\ UNCHANGED workVars

\* channel.Consume(queue.Name, consumerTag, false (auto-ack), ...); on error
\* return false, err (the defer closes)
channelConsume(ok) ==
    /\ pc[SC] = "consume"
    /\ IF ok
       THEN /\ pc' = [pc EXCEPT ![SC] = "select"]
            /\ consuming' = TRUE
            /\ UNCHANGED <<err, retry>>
       ELSE /\ pc' = [pc EXCEPT ![SC] = "close"]
            /\ consuming' = consuming
            /\ err' = [err EXCEPT ![SC] = "Consume"]
            /\ retry' = FALSE
    /\ UNCHANGED <<conn, channel, runs, crashes, queue, unacked, arrived, valid,
                   loopVars, stopVars, pubVars>>
    /\ UNCHANGED workVars

\* a consumer registered with auto-ack: the server would count a delivery
\* as acked the moment it is sent
AutoAckOn == TRUE

\* channel.Consume(..., false /* auto-ack */, ...)
AutoAck == FALSE

\* a channel on which Qos was never set: the server does not limit what
\* it pushes
NoPrefetchLimit == TRUE

\* channel.Qos(3 /* prefetch count */, 0, false): the server pushes only
\* while fewer than the prefetch count are un-acked
UnderPrefetch == Cardinality(unacked) < PrefetchCount

\* The server pushes the head of the queue to the registered consumer while
\* fewer than the prefetch count are un-acked; without auto-ack it holds
\* every delivery as un-acked until the consumer acks or nacks it.
serverPush ==
    /\ consuming
    /\ queue # <<>>
    /\ UnderPrefetch
    /\ queue' = Tail(queue)
    /\ unacked' = IF AutoAck THEN unacked ELSE unacked \cup {Head(queue)}
    /\ deliveries' = Append(deliveries, Head(queue))
    /\ UNCHANGED <<arrived, valid, consuming, callVars, stopVars, pubVars,
                   d, acks, nacks, requeued, started, done, handled, lost>>

\* the push as the consumer alone sees it
Deliver == serverPush /\ UNCHANGED workVars

(* ------------------------------ consume -------------------------------- *)
\* select { case d := <-deliveries: ... }
consumeReceive ==
    /\ pc[SC] = "select"
    /\ deliveries # <<>>
    /\ d' = Head(deliveries)
    /\ deliveries' = Tail(deliveries)
    /\ pc' = [pc EXCEPT ![SC] = "consumeOne"]
    /\ UNCHANGED <<conn, channel, err, retry, runs, crashes, brokerVars, stopVars,
                   pubVars, acks, nacks, requeued, started, done, handled, lost>>
    /\ UNCHANGED workVars

\* a stop signal that is read and left in place (as a closed channel is)
TakeStopTokenLeftInPlace ==
    /\ StopTokens > 0
    /\ UNCHANGED <<stopCap, stopBuf, stopBlocked, stopCalls, stopReturned>>

\* <-amqpBroker.stopChan: the receive takes one token.  With a sender
\* blocked, its send completes and that call of StopConsuming returns (on a
\* full buffer its token moves into the slot the receive freed); otherwise
\* the token comes out of the buffer.
TakeStopToken ==
    /\ StopTokens > 0
    /\ IF stopBlocked > 0
       THEN /\ stopBlocked' = stopBlocked - 1
            /\ stopBuf' = stopBuf
            /\ stopReturned' = stopReturned + 1
       ELSE /\ stopBuf' = stopBuf - 1
            /\ stopBlocked' = stopBlocked
            /\ stopReturned' = stopReturned
    /\ UNCHANGED <<stopCap, stopCalls>>

\* select { case <-amqpBroker.stopChan: return nil }, and then
\* StartConsuming's return false, nil.  Go's select picks among the ready
\* cases at random, so this and consumeReceive are both enabled.
consumeStop ==
    /\ pc[SC] = "select"
    /\ TakeStopToken
    /\ stopsTaken' = stopsTaken + 1
    /\ pc' = [pc EXCEPT ![SC] = "close"]
    /\ err' = [err EXCEPT ![SC] = "nil"]
    /\ retry' = FALSE
    /\ UNCHANGED <<conn, channel, runs, crashes, brokerVars, loopVars, pubVars>>
    /\ UNCHANGED workVars

\* d.Ack(false): the server forgets the delivery
Ack(m) ==
    /\ acks' = [acks EXCEPT ![m] = @ + 1]
    /\ unacked' = unacked \ {m}
    /\ UNCHANGED <<queue, nacks, requeued>>

\* d.Nack(false, requeue): the server drops the delivery, or requeues it
Nack(m, requeue) ==
    /\ nacks' = [nacks EXCEPT ![m] = @ + 1]
    /\ unacked' = unacked \ {m}
    /\ queue' = IF requeue THEN Requeue({m}) ELSE queue
    /\ requeued' = IF requeue THEN requeued \cup {m} ELSE requeued
    /\ acks' = acks

\* consumeOne with the ack forgotten
consumeOneAckSkipped == UNCHANGED <<acks, unacked, queue, nacks, requeued>>

\* d.Ack(false) // multiple false
consumeOneAck == Ack(d)

\* consumeOne nacking with requeue true
consumeOneNackRequeue == Nack(d, TRUE)

\* d.Nack(false, false) // multiple, requeue both false
consumeOneNack == Nack(d, FALSE)

\* StartConsuming giving up on an error of consume
ConsumeErrGiveUp == FALSE

\* if err := amqpBroker.consume(...); err != nil { return true, err }
ConsumeErrRetry == TRUE

\* consumeOne up to the call of Process: json.Unmarshal(d.Body, &signature);
\* on error d.Nack(false, false), return err, and consume and StartConsuming
\* return it with retry true; otherwise d.Ack(false).
consumeOne ==
    /\ pc[SC] = "consumeOne"
    /\ IF valid[d]
       THEN /\ consumeOneAck
            /\ pc' = [pc EXCEPT ![SC] = "process"]
            /\ UNCHANGED <<d, handled, err, retry>>
       ELSE /\ consumeOneNack
            /\ handled' = handled \cup {d}
            /\ d' = NoMsg
            /\ pc' = [pc EXCEPT ![SC] = "close"]
            /\ err' = [err EXCEPT ![SC] = "Decode"]
            /\ retry' = ConsumeErrRetry
    /\ UNCHANGED <<conn, channel, runs, crashes, arrived, valid, consuming,
                   deliveries, started, done, lost, stopVars, pubVars>>
    /\ UNCHANGED workVars

\* go taskProcessor.Process(&signature): the loop would not wait for it
ProcessCallAsync ==
    /\ pc[SC] = "process"
    /\ started' = started \cup {d}
    /\ handled' = handled \cup {d}
    /\ d' = NoMsg
    /\ pc' = [pc EXCEPT ![SC] = "select"]
    /\ UNCHANGED <<conn, channel, err, retry, runs, crashes, brokerVars, stopVars,
                   pubVars, deliveries, acks, nacks, requeued, done, lost>>
    /\ UNCHANGED workVars

\* taskProcessor.Process(&signature) is called
callProcess ==
    /\ pc[SC] = "process"
    /\ started' = started \cup {d}
    /\ pc' = [pc EXCEPT ![SC] = "processing"]
    /\ UNCHANGED <<conn, channel, err, retry, runs, crashes, brokerVars, stopVars,
                   pubVars, deliveries, d, acks, nacks, requeued, done, handled, lost>>

\* the call, whatever the TaskProcessor does
ProcessCall == callProcess /\ UNCHANGED workVars

\* Process returns; consumeOne returns nil and the loop selects again
returnProcess ==
    /\ pc[SC] = "processing"
    /\ done' = done \cup {d}
    /\ handled' = handled \cup {d}
    /\ d' = NoMsg
    /\ pc' = [pc EXCEPT ![SC] = "select"]
    /\ UNCHANGED <<conn, channel, err, retry, runs, crashes, brokerVars, stopVars,
                   pubVars, deliveries, acks, nacks, requeued, started, lost>>

\* the return, whatever the TaskProcessor did
ProcessReturn == returnProcess /\ UNCHANGED workVars

(* ---------------------------- StopConsuming ---------------------------- *)
\* amqpBroker.stopChan <- 1: into the buffer if there is room, otherwise the
\* call blocks until a receive takes the token
StopConsuming ==
    /\ stopCalls < MaxStops
    /\ pc[SC] # "crashed"
    /\ stopCalls' = stopCalls + 1
    /\ IF stopBuf < stopCap
       THEN /\ stopBuf' = stopBuf + 1
            /\ stopBlocked' = stopBlocked
            /\ stopReturned' = stopReturned + 1
       ELSE /\ stopBlocked' = stopBlocked + 1
            /\ stopBuf' = stopBuf
            /\ stopReturned' = stopReturned
    /\ UNCHANGED <<stopCap, stopsTaken, brokerVars, callVars, loopVars, pubVars>>
    /\ UNCHANGED workVars

(* ---------------------------- environment ------------------------------ *)
\* The worker process dies while StartConsuming runs, between any two of
\* its steps: the server sees the connection go and returns the un-acked
\* deliveries to the queue; what the process held (the delivery in hand,
\* stopChan and its tokens) is gone.  An ack or nack counts once the server
\* has it, so a crash before consumeOne's ack or nack leaves the delivery
\* un-acked and it is delivered again.
processKilled ==
    /\ pc[SC] \notin {"idle", "ret", "crashed"}
    /\ crashes < MaxCrashes
    /\ crashes' = crashes + 1
    /\ pc' = [pc EXCEPT ![SC] = "crashed"]
    /\ conn' = [conn EXCEPT ![SC] = "lost"]
    /\ channel' = [channel EXCEPT ![SC] = "lost"]
    /\ queue' = Requeue(unacked)
    /\ unacked' = {}
    /\ consuming' = FALSE
    /\ deliveries' = <<>>
    /\ lost' = IF d # NoMsg /\ acks[d] > 0 /\ d \notin done THEN lost \cup {d} ELSE lost
    /\ d' = NoMsg
    /\ stopBuf' = 0
    /\ stopBlocked' = 0
    /\ UNCHANGED <<err, retry, runs, arrived, valid, acks, nacks, requeued, started,
                   done, handled, stopCap, stopCalls, stopReturned, stopsTaken,
                   pubVars>>

\* the crash as the consumer alone sees it
Crash == processKilled /\ UNCHANGED workVars

\* A producer's message reaches the queue; its body decodes (the JSON of a
\* signature, as Publish makes it) or does not (any other producer).
Arrive(v) ==
    /\ arrived < MaxMsgs
    /\ arrived' = arrived + 1
    /\ queue' = Append(queue, arrived + 1)
    /\ valid' = [valid EXCEPT ![arrived + 1] = v]
    /\ UNCHANGED <<unacked, consuming, callVars, loopVars, stopVars, pubVars>>
    /\ UNCHANGED workVars

(* ------------------------------ Publish -------------------------------- *)
\* signature.AdjustRoutingKey(exchangeType, bindingKey, defaultQueue): the
\* routing key it leaves in the signature
AdjustRoutingKey(routingKey, exchangeType, bindingKey, defaultQueue) ==
    IF routingKey # "" THEN routingKey
    ELSE IF exchangeType = "direct" THEN bindingKey
    ELSE defaultQueue

\* A call of Publish with a signature of the caller's
Publish(routingKey, encodes) ==
    /\ pc[PB] \in {"idle", "ret"}
    /\ pubs < MaxPublish
    /\ pubs' = pubs + 1
    /\ given' = routingKey
    /\ signature' = [RoutingKey |-> routingKey, encodes |-> encodes]
    /\ message' = NoMessage
    /\ pc' = [pc EXCEPT ![PB] = "dial"]
    /\ conn' = [conn EXCEPT ![PB] = "nil"]
    /\ channel' = [channel EXCEPT ![PB] = "nil"]
    /\ err' = [err EXCEPT ![PB] = "nil"]
    /\ UNCHANGED <<retry, runs, crashes, brokerVars, loopVars, stopVars,
                   ExchangeType, wire>>
    /\ UNCHANGED workVars

\* if err != nil { return err }: before the defer, so nothing is closed
PublishOpenFailed ==
    /\ pc[PB] = "openFailed"
    /\ pc' = [pc EXCEPT ![PB] = "ret"]
    /\ UNCHANGED <<conn, channel, err, retry, runs, crashes, brokerVars, loopVars,
                   stopVars, pubVars>>
    /\ UNCHANGED workVars

\* Publish adjusting the routing key first and encoding after it
jsonMarshalAdjusted ==
    /\ pc[PB] = "opened"
    /\ signature' = [signature EXCEPT !.RoutingKey =
                        AdjustRoutingKey(@, ExchangeType, BindingKey, DefaultQueue)]
    /\ IF signature.encodes
       THEN /\ message' = [RoutingKey |-> signature'.RoutingKey]
            /\ pc' = [pc EXCEPT ![PB] = "adjust"]
            /\ err' = err
       ELSE /\ message' = message
            /\ pc' = [pc EXCEPT ![PB] = "close"]
            /\ err' = [err EXCEPT ![PB] = "JSON Encode"]
    /\ UNCHANGED <<conn, channel, retry, runs, crashes, brokerVars, loopVars,
                   stopVars, ExchangeType, given, wire, pubs>>
    /\ UNCHANGED workVars

\* message, err := json.Marshal(signature): the body is the signature as it
\* is at this point; on error return (the defer closes)
jsonMarshal ==
    /\ pc[PB] = "opened"
    /\ IF signature.encodes
       THEN /\ message' = [RoutingKey |-> signature.RoutingKey]
            /\ pc' = [pc EXCEPT ![PB] = "adjust"]
            /\ err' = err
       ELSE /\ message' = message
            /\ pc' = [pc EXCEPT ![PB] = "close"]
            /\ err' = [err EXCEPT ![PB] = "JSON Encode"]
    /\ UNCHANGED <<conn, channel, retry, runs, crashes, brokerVars, loopVars,
                   stopVars, ExchangeType, given, signature, wire, pubs>>
    /\ UNCHANGED workVars

\* the call with the binding key and the queue name in each other's place
AdjustedKeySwapped ==
    AdjustRoutingKey(signature.RoutingKey, ExchangeType, DefaultQueue, BindingKey)

\* the arguments Publish passes: config.ExchangeType, config.BindingKey,
\* config.DefaultQueue
AdjustedKey ==
    AdjustRoutingKey(signature.RoutingKey, ExchangeType, BindingKey, DefaultQueue)

\* signature.AdjustRoutingKey(...), after the body was made
PublishAdjustRoutingKey ==
    /\ pc[PB] = "adjust"
    /\ signature' = [signature EXCEPT !.RoutingKey = AdjustedKey]
    /\ pc' = [pc EXCEPT ![PB] = "publish"]
    /\ UNCHANGED <<conn, channel, err, retry, runs, crashes, brokerVars, loopVars,
                   stopVars, ExchangeType, given, message, wire, pubs>>
    /\ UNCHANGED workVars

\* return channel.Publish(config.Exchange, signature.RoutingKey, false, false,
\* amqp.Publishing{Body: message, ...}) (the defer closes)
channelPublish(ok) ==
    /\ pc[PB] = "publish"
    /\ IF ok
       THEN /\ wire' = Append(wire, [key |-> signature.RoutingKey,
                                     body |-> message, given |-> given,
                                     call |-> pubs])
            /\ err' = err
       ELSE /\ wire' = wire
            /\ err' = [err EXCEPT ![PB] = "Publish"]
    /\ pc' = [pc EXCEPT ![PB] = "close"]
    /\ UNCHANGED <<conn, channel, retry, runs, crashes, brokerVars, loopVars,
                   stopVars, ExchangeType, given, signature, message, pubs>>
    /\ UNCHANGED workVars

(* ------------------------------- worker -------------------------------- *)
\* The signature with UUID u as it was composed: NewChain installs link
\* u + 1 as the only OnSuccess of link u; an error callback names the task
\* that logs and has no arguments and no callbacks of its own.
Composed(u) ==
    IF u \in Links
    THEN [UUID |-> u, Name |-> chain[u].Name, Args |-> chain[u].Args,
          Immutable |-> chain[u].Immutable,
          OnSuccess |-> IF u < ChainLen THEN <<u + 1>> ELSE <<>>,
          OnError |-> chain[u].OnError]
    ELSE [UUID |-> u, Name |-> "log", Args |-> <<>>, Immutable |-> FALSE,
          OnSuccess |-> <<>>, OnError |-> <<>>]

\* what of a signature changes between composing and publishing, and so
\* what a message body is told apart by: the UUID and the arguments
Body(s) == [UUID |-> s.UUID, Args |-> s.Args]

\* the signature consumeOne decoded from the delivery and handed to Process
sig == [Composed(body[d].UUID) EXCEPT !.Args = body[d].Args]

\* A message with the body b reaches the queue (Publish, with a broker that
\* answers; json.Marshal of a signature does not fail).
Enqueue(b) ==
    /\ arrived < MaxMsgs
    /\ arrived' = arrived + 1
    /\ queue' = Append(queue, arrived + 1)
    /\ valid' = [valid EXCEPT ![arrived + 1] = TRUE]
    /\ body' = [body EXCEPT ![arrived + 1] = b]

\* server.SendChain(chain) publishes the first link only
SendChain ==
    /\ arrived = 0
    /\ Enqueue(Body(Composed(1)))
    /\ UNCHANGED <<unacked, consuming, callVars, loopVars, stopVars, pubVars,
                   chain, delivered, wpc, todo, outcome, state, result, seen>>

\* the server's push, with the count of pushes per message
DeliverWorker ==
    /\ serverPush
    /\ delivered' = [delivered EXCEPT ![Head(queue)] = IF @ < 2 THEN @ + 1 ELSE @]
    /\ UNCHANGED <<chain, body, wpc, todo, outcome, state, result, seen>>

\* backend.SetState(TaskState{TaskUUID, State, Result}): the record of the
\* UUID is replaced
SetState(u, s, r) ==
    /\ state' = [state EXCEPT ![u] = s]
    /\ result' = [result EXCEPT ![u] = r]

\* the result of a task as the first argument of a callback, with the same
\* type and value
ResultAsArg(r) == [Type |-> r.Type, Int |-> r.Int, Str |-> r.Str]

\* a callback with the result put after its arguments
PrependResultAppended(r, s) == [s EXCEPT !.Args = @ \o <<ResultAsArg(r)>>]

\* a mutable task prepends its result to the args sent to a callback
PrependResult(r, s) == [s EXCEPT !.Args = <<ResultAsArg(r)>> \o @]

\* a worker that passes the result on whatever the Immutable flag says
SuccessContinuationAlways(parent, r, s) == PrependResult(r, s)

\* the success callback s of the task parent that returned r, as it is
\* published: an immutable task does not pass its result on
SuccessContinuation(parent, r, s) ==
    IF ~parent.Immutable THEN PrependResult(r, s) ELSE s

\* an error callback published as it was composed
ErrorContinuationPlain(e, s) == s

\* the error callback s of a task that failed with the error e, as it is
\* published: the error is its first argument
ErrorContinuation(e, s) == [s EXCEPT !.Args = <<StringArg(e)>> \o @]

\* the arguments coerce to the parameters of the task
Coerces(name, args) == \A i \in 1..Len(args) : args[i].Type = ParamType(name)

RECURSIVE SeqSum(_)
SeqSum(s) == IF s = <<>> THEN 0 ELSE s[1].Int + SeqSum(Tail(s))
RECURSIVE SeqProduct(_)
SeqProduct(s) == IF s = <<>> THEN 1 ELSE s[1].Int * SeqProduct(Tail(s))

\* the call of the registered task: its first return value, or its error
Call(name, args) ==
    IF name = "fail" THEN [Error |-> ErrTask, Value |-> NoResult]
    ELSE [Error |-> "",
          Value |-> Int64Arg(IF name = "add" THEN SeqSum(args)
                             ELSE IF name = "multiply" THEN SeqProduct(args)
                             ELSE Len(args))]

\* The task failed with the error e: the state is set to FAILURE with the
\* error, and every OnError callback is to be published with it.
finalizeError(e) ==
    /\ SetState(sig.UUID, FailureState, StringArg(e))
    /\ todo' = [i \in 1..Len(sig.OnError) |->
                   Body(ErrorContinuation(e, Composed(sig.OnError[i])))]
    /\ wpc' = "publish"

\* Process(signature) begins: the state is set to RECEIVED
WorkerProcessCall ==
    /\ callProcess
    /\ wpc = "idle"
    /\ SetState(body[d].UUID, ReceivedState, NoResult)
    /\ wpc' = "lookup"
    /\ UNCHANGED <<chain, body, delivered, todo, outcome, seen>>

\* the task is looked up by name; a name that is not registered fails
WorkerLookup ==
    /\ pc[SC] = "processing"
    /\ wpc = "lookup"
    /\ IF sig.Name \in Registry
       THEN /\ wpc' = "coerce"
            /\ UNCHANGED <<state, result, todo>>
       ELSE finalizeError(ErrNotRegistered)
    /\ UNCHANGED <<brokerVars, callVars, loopVars, stopVars, pubVars,
                   chain, body, delivered, outcome, seen>>

\* the arguments are coerced to the parameters of the task; an argument of
\* the wrong type fails
WorkerCoerce ==
    /\ pc[SC] = "processing"
    /\ wpc = "coerce"
    /\ IF Coerces(sig.Name, sig.Args)
       THEN /\ wpc' = "start"
            /\ UNCHANGED <<state, result, todo>>
       ELSE finalizeError(ErrWrongArgType)
    /\ UNCHANGED <<brokerVars, callVars, loopVars, stopVars, pubVars,
                   chain, body, delivered, outcome, seen>>

\* the state is set to STARTED
WorkerStart ==
    /\ pc[SC] = "processing"
    /\ wpc = "start"
    /\ SetState(sig.UUID, StartedState, NoResult)
    /\ wpc' = "invoke"
    /\ UNCHANGED <<brokerVars, callVars, loopVars, stopVars, pubVars,
                   chain, body, delivered, todo, outcome, seen>>

\* the task is called with the arguments; a task that returns an error
\* fails
WorkerInvoke ==
    /\ pc[SC] = "processing"
    /\ wpc = "invoke"
    /\ seen' = [seen EXCEPT ![sig.UUID] = @ \cup {sig.Args}]
    /\ outcome' = Call(sig.Name, sig.Args)
    /\ IF outcome'.Error = ""
       THEN /\ wpc' = "success"
            /\ UNCHANGED <<state, result, todo>>
       ELSE finalizeError(outcome'.Error)
    /\ UNCHANGED <<brokerVars, callVars, loopVars, stopVars, pubVars,
                   chain, body, delivered>>

\* The task returned a value: the state is set to SUCCESS with the result,
\* and every OnSuccess callback is to be published.
WorkerFinalizeSuccess ==
    /\ pc[SC] = "processing"
    /\ wpc = "success"
    /\ SetState(sig.UUID, SuccessState, outcome.Value)
    /\ todo' = [i \in 1..Len(sig.OnSuccess) |->
                   Body(SuccessContinuation(sig, outcome.Value,
                                            Composed(sig.OnSuccess[i])))]
    /\ wpc' = "publish"
    /\ UNCHANGED <<brokerVars, callVars, loopVars, stopVars, pubVars,
                   chain, body, delivered, outcome, seen>>

\* server.SendTask(callback): the next callback is published
WorkerPublish ==
    /\ pc[SC] = "processing"
    /\ wpc = "publish"
    /\ todo # <<>>
    /\ Enqueue(Head(todo))
    /\ todo' = Tail(todo)
    /\ UNCHANGED <<unacked, consuming, callVars, loopVars, stopVars, pubVars,
                   chain, delivered, wpc, outcome, state, result, seen>>

\* every callback is published: Process returns
WorkerReturn ==
    /\ returnProcess
    /\ wpc = "publish"
    /\ todo = <<>>
    /\ wpc' = "idle"
    /\ outcome' = NoOutcome
    /\ UNCHANGED <<chain, body, delivered, todo, state, result, seen>>

\* the worker process is killed: what Process was doing is gone, what the
\* backend and the server hold stays
CrashWorker ==
    /\ processKilled
    /\ wpc' = "idle"
    /\ todo' = <<>>
    /\ outcome' = NoOutcome
    /\ UNCHANGED <<chain, body, delivered, state, result, seen>>

(* --------------------------- specification ----------------------------- *)
Next ==
    \/ StartConsuming
    \/ \E ok \in BOOLEAN : openDial(SC, ok)
    \/ \E ok \in BOOLEAN : openChannel(SC, ok)
    \/ \E ok \in BOOLEAN : openDeclare(SC, ok)
    \/ StartConsumingOpenFailed
    \/ \E ok \in BOOLEAN : channelQos(ok)
    \/ \E ok \in BOOLEAN : channelConsume(ok)
    \/ Deliver
    \/ consumeReceive
    \/ consumeStop
    \/ consumeOne
    \/ ProcessCall
    \/ ProcessReturn
    \/ \E ok \in BOOLEAN : closeChannel(SC, ok)
    \/ \E ok \in BOOLEAN : closeConn(SC, ok)
    \/ StopConsuming
    \/ Crash
    \/ \E v \in BOOLEAN : Arrive(v)

Spec == Init /\ [][Next]_vars

\* Publish opens a connection and a channel of its own and shares no state
\* of the process with StartConsuming, so it is checked on its own.
NextPublish ==
    \/ \E routingKey \in RoutingKeys, encodes \in BOOLEAN : Publish(routingKey, encodes)
    \/ \E ok \in BOOLEAN : openDial(PB, ok)
    \/ \E ok \in BOOLEAN : openChannel(PB, ok)
    \/ \E ok \in BOOLEAN : openDeclare(PB, ok)
    \/ PublishOpenFailed
    \/ jsonMarshal
    \/ PublishAdjustRoutingKey
    \/ \E ok \in BOOLEAN : channelPublish(ok)
    \/ \E ok \in BOOLEAN : closeChannel(PB, ok)
    \/ \E ok \in BOOLEAN : closeConn(PB, ok)

SpecPublish == InitPublish /\ [][NextPublish]_vars

\* The steps of one call of StartConsuming against a broker that answers:
\* the goroutine that runs the call takes them whenever it can.
ConsumerStep ==
    \/ openDial(SC, TRUE)
    \/ openChannel(SC, TRUE)
    \/ openDeclare(SC, TRUE)
    \/ channelQos(TRUE)
    \/ channelConsume(TRUE)
    \/ consumeReceive
    \/ consumeOne
    \/ ProcessCall
    \/ ProcessReturn
    \/ closeChannel(SC, TRUE)
    \/ closeConn(SC, TRUE)

\* The consumer under a harness that retries, with a broker that answers
\* and no one stopping or killing the worker: producers put decodable and
\* undecodable messages on the queue.
NextLive ==
    \/ StartConsuming
    \/ HarnessRetry
    \/ ConsumerStep
    \/ Deliver
    \/ \E v \in BOOLEAN : Arrive(v)

\* The goroutine of the call runs, the server pushes what it may push, and
\* the harness does call again; Process returns.
SpecLive ==
    /\ Init
    /\ [][NextLive]_vars
    /\ WF_vars(ConsumerStep)
    /\ WF_vars(Deliver)
    /\ WF_vars(HarnessRetry)

\* The consumer with the worker behind it, run on a chain: a broker that
\* answers and messages that all decode, no one stopping the consumer (so
\* the loop is only left when the process is killed), a process that may
\* be killed and started again.
NextWorker ==
    \/ SendChain
    \/ StartConsuming
    \/ openDial(SC, TRUE)
    \/ openChannel(SC, TRUE)
    \/ openDeclare(SC, TRUE)
    \/ channelQos(TRUE)
    \/ channelConsume(TRUE)
    \/ DeliverWorker
    \/ consumeReceive
    \/ consumeOne
    \/ WorkerProcessCall
    \/ WorkerLookup
    \/ WorkerCoerce
    \/ WorkerStart
    \/ WorkerInvoke
    \/ WorkerFinalizeSuccess
    \/ WorkerPublish
    \/ WorkerReturn
    \/ CrashWorker

SpecWorker == InitWorker /\ [][NextWorker]_vars

(* ------------------------------- claims -------------------------------- *)
Arrived == 1..arrived
InQueue(m) == m \in SeqSet(queue)
\* the errors of a broker connection or channel that StartConsuming returns
TransportFaults == {"Dial", "Channel", "Declare", "Qos", "Consume"}
\* the loop left through the stop case: StartConsuming is returning
\* false, nil (in its deferred close, or returned)
Stopped == pc[SC] \in {"close", "closeConn", "ret"} /\ err[SC] = "nil"

\* C1: a delivery is acked only after its signature was decoded and handed
\* to Process; no delivery is acked before Process was called with it.
C1_AckOnlyAfterHandedToProcess ==
    \A m \in Msgs : acks[m] > 0 => (valid[m] /\ m \in started)

\* C2: at-least-once.  After a crash of the worker, every decodable message
\* on which Process has not run to completion is still held by the server
\* (back in the queue, to be redelivered).
C2_AtLeastOnce ==
    pc[SC] = "crashed" =>
        \A m \in Arrived : (valid[m] /\ m \notin done) => InQueue(m)

\* C3: for every delivery the loop took, exactly one of ack and nack is
\* issued: never both, never neither once consumeOne has returned, and for
\* a delivery handed to Process it is issued before Process returns.
C3_ExactlyOneAckOrNack ==
    \A m \in Msgs :
        /\ acks[m] + nacks[m] <= 1
        /\ m \in handled => acks[m] + nacks[m] = 1
        /\ m \in done => acks[m] + nacks[m] = 1

\* C3 witness: one delivery went through Process and is acked, another
\* failed to decode and is nacked.
C3_Witness ==
    \E m, n \in Msgs :
        /\ m \in done /\ acks[m] = 1 /\ nacks[m] = 0
        /\ n \in handled /\ nacks[n] = 1 /\ acks[n] = 0

\* C4: a delivery whose body does not decode is nacked with requeue false,
\* never acked, never handed to Process, and after the nack no consumer
\* sees it again: it is not in the queue, not un-acked, not in the
\* deliveries channel and not in the loop's hands.
C4_MalformedNackedNoRequeue ==
    \A m \in Arrived :
        ~valid[m] =>
            /\ acks[m] = 0
            /\ m \notin started
            /\ m \notin requeued
            /\ m \in handled => nacks[m] = 1
            /\ nacks[m] > 0 =>
                   /\ ~InQueue(m)
                   /\ m \notin unacked
                   /\ m \notin SeqSet(deliveries)
                   /\ d # m

\* C4 witness: a malformed delivery was nacked and a later call of
\* StartConsuming is consuming again.
C4_Witness ==
    \E m \in Arrived :
        /\ ~valid[m] /\ nacks[m] = 1 /\ m \in handled
        /\ runs >= 2 /\ pc[SC] = "select" /\ consuming

\* C5: every transport fault that makes StartConsuming return an error is
\* returned with retry true.
C5_TransportFaultRetries ==
    (pc[SC] = "ret" /\ err[SC] \in TransportFaults) => retry

\* C6: the retry flag separates the fault classes: true for a connection
\* fault, false for a protocol/logic fault such as a body that does not
\* decode.
C6_RetrySeparatesFaultClasses ==
    pc[SC] = "ret" =>
        /\ err[SC] \in TransportFaults => retry
        /\ err[SC] = "Decode" => ~retry

\* C7: once StopConsuming has posted its token, the loop at its select
\* takes no further delivery: it leaves through the stop case.
C7_StopPreemptsDeliveries ==
    [][(pc[SC] = "select" /\ StopTokens > 0) => pc'[SC] # "consumeOne"]_vars

\* C8: graceful stop loses no message.  When the loop leaves through the
\* stop case, no delivery is left in its hands; every task handed to Process
\* has run to completion and is acked (but for one a crash of an earlier run
\* cut short); every other message is still with the server, un-acked until
\* close has closed the channel and in the queue from then on (but for the
\* malformed ones an earlier run nacked).
C8_GracefulStopLosesNoMessage ==
    Stopped =>
        /\ d = NoMsg
        /\ pc[SC] # "close" => unacked = {}
        /\ \A m \in started : acks[m] = 1 /\ (m \in done \/ m \in lost)
        /\ \A m \in Arrived :
               \/ InQueue(m)
               \/ pc[SC] = "close" /\ m \in unacked
               \/ m \in done /\ acks[m] = 1
               \/ nacks[m] = 1
               \/ m \in lost

\* C8 witness: the stop case was taken after a task had been processed and
\* while two prefetched deliveries were still un-acked.
C8_Witness ==
    /\ pc[SC] = "close" /\ err[SC] = "nil" /\ ~retry
    /\ done # {}
    /\ Cardinality(unacked) >= 2
    /\ Len(deliveries) >= 2

\* C9: every connection and channel a call opened is closed when the call
\* returns, on every exit path.
C9_ClosedOnEveryExit ==
    \A c \in Callers :
        pc[c] = "ret" => (conn[c] # "open" /\ channel[c] # "open")

\* C10: the routing key a message is published with is the signature's own
\* when that is not empty; for an empty one it is the binding key under a
\* direct exchange and the default queue's name under any other.
C10_PublishedRoutingKey ==
    \A i \in 1..Len(wire) :
        /\ wire[i].given # "" => wire[i].key = wire[i].given
        /\ (wire[i].given = "" /\ ExchangeType = "direct") => wire[i].key = BindingKey
        /\ (wire[i].given = "" /\ ExchangeType # "direct") => wire[i].key = DefaultQueue

\* C10 witness: a signature with an empty routing key and one with a routing
\* key of its own were both published.
C10_Witness ==
    \E i, j \in 1..Len(wire) : wire[i].given = "" /\ wire[j].given # ""

\* C11: when Publish is called with an empty routing key, the body placed
\* on the broker carries the derived routing key: it is not empty and it is
\* the routing key the message was published with.
C11_BodyCarriesRoutingKey ==
    \A i \in 1..Len(wire) :
        wire[i].given = "" =>
            /\ wire[i].body.RoutingKey # ""
            /\ wire[i].body.RoutingKey = wire[i].key

\* the deliveries the consumer has received and neither acked nor nacked:
\* those waiting in the deliveries channel and the one consumeOne has taken
\* and not yet decoded
HeldByConsumer ==
    Len(deliveries) + (IF pc[SC] = "consumeOne" THEN 1 ELSE 0)

\* C12: in every reachable state the deliveries the consumer has received
\* and not yet acked or nacked are at most the prefetch count, 3, both as
\* the consumer holds them and as the server counts them.
C12_UnackedWithinPrefetch ==
    /\ HeldByConsumer <= PrefetchCount
    /\ Cardinality(unacked) <= PrefetchCount

\* C12 witness: the consumer holds three un-acked deliveries and the server
\* keeps a fourth message back in the queue.
C12_Witness ==
    /\ consuming
    /\ HeldByConsumer = PrefetchCount
    /\ Cardinality(unacked) = PrefetchCount
    /\ queue # <<>>

\* the calls of Process that have not returned (a crash of the process ends
\* the call it was in)
ActiveProcess == started \ (done \cup lost)

\* C17: within one consumer at most one call of Process is active, and the
\* loop takes the next delivery from the deliveries channel only after
\* Process has returned for the previous one.
C17_OneProcessAtATime ==
    /\ Cardinality(ActiveProcess) <= 1
    /\ pc[SC] \in {"select", "consumeOne", "process"} => ActiveProcess = {}
    /\ pc[SC] = "processing" => ActiveProcess = {d}

\* C17 witness: Process is running on one delivery while read-ahead
\* deliveries wait in the channel, after an earlier delivery went through.
C17_Witness ==
    /\ pc[SC] = "processing"
    /\ deliveries # <<>>
    /\ done # {}

\* the call of Publish has returned the error of open or of json.Marshal
PublishFailedEarly ==
    /\ pc[PB] = "ret"
    /\ err[PB] \in {"Dial", "Channel", "Declare", "JSON Encode"}

\* C19: when Publish returns an error because the connection could not be
\* opened or the signature could not be encoded, that call has placed no
\* message on the broker and the caller's signature still has the routing
\* key it was given.
C19_FailedPublishNoEffect ==
    PublishFailedEarly =>
        /\ signature.RoutingKey = given
        /\ \A i \in 1..Len(wire) : wire[i].call # pubs

\* C19 witness: after a call that published, a call with an empty routing
\* key has failed to encode and returned.
C19_Witness ==
    /\ pc[PB] = "ret"
    /\ err[PB] = "JSON Encode"
    /\ given = ""
    /\ signature.RoutingKey = ""
    /\ Len(wire) = 1

\* C20: stop tokens and consume loops pair one to one.  No more loops have
\* left through the stop case than StopConsuming was called, and on an
\* unbuffered stop channel a call of StopConsuming has returned exactly when
\* a loop took its token: none returns while no loop is running or while the
\* loop is inside Process.
C20_StopTokensPairWithLoops ==
    /\ stopsTaken <= stopCalls
    /\ stopReturned <= stopCalls
    /\ stopCap = 0 => stopReturned = stopsTaken
    /\ stopCap = 0 => stopBlocked = stopCalls - stopReturned \/ crashes > 0

\* C20 witness: on an unbuffered channel one call of StopConsuming has
\* returned, one loop has left through the stop case, and a second loop is
\* running with no token left for it.
C20_Witness ==
    /\ stopCap = 0
    /\ stopCalls = 1
    /\ stopReturned = 1
    /\ stopsTaken = 1
    /\ runs = 2
    /\ pc[SC] = "select"
    /\ StopTokens = 0

\* the malformed deliveries a consume loop has ended on
DecodeFailed == {k \in Arrived : ~valid[k] /\ nacks[k] > 0}

\* C18: a malformed delivery does not block the queue.  With the harness
\* calling StartConsuming again whenever the retry flag is true, every
\* decodable message queued behind a malformed one on which the loop ended
\* is eventually handed to Process, and the malformed one is never seen
\* again: not in the queue, not un-acked, not in the deliveries channel and
\* not in the loop's hands.
C18_MalformedDoesNotBlock ==
    /\ \A m \in Msgs :
          (m \in Arrived /\ valid[m] /\ \E k \in DecodeFailed : k < m)
              ~> (m \in started)
    /\ [](\A k \in DecodeFailed :
              /\ ~InQueue(k)
              /\ k \notin unacked
              /\ k \notin SeqSet(deliveries)
              /\ k # d)

\* C18 witness: the loop ended on a malformed delivery and, in a later call
\* of StartConsuming, a decodable message that was queued behind it is in
\* Process while another one behind it has gone through.
C18_Witness ==
    \E k, m, n \in Arrived :
        /\ k < m /\ m < n
        /\ k \in DecodeFailed
        /\ m \in done
        /\ pc[SC] = "processing" /\ d = n

\* every link is as the README has it: all registered, all arguments of
\* the right type, no task returning an error
CleanChain ==
    \A k \in Links : chain[k].Name = BaseName(k) /\ chain[k].Args = BaseArgs(k)
\* the link that fails, or 0
FailAt ==
    IF CleanChain THEN 0
    ELSE CHOOSE k \in Links : chain[k].Name # BaseName(k) \/ chain[k].Args # BaseArgs(k)
\* the failure string of the link k
FailureString(k) ==
    IF chain[k].Name \notin Registry THEN ErrNotRegistered
    ELSE IF chain[k].Name = "fail" THEN ErrTask
    ELSE ErrWrongArgType
\* the messages that carry the signature with UUID u
Published(u) == {m \in Arrived : body[m].UUID = u}
\* no link of the chain is immutable
AllMutable == \A k \in Links : ~chain[k].Immutable

\* C13: in a chain in which every task succeeds and no link is immutable,
\* every link after the first is invoked with the recorded result of the
\* link before it prepended to the arguments it was composed with, and it
\* is published only after the SUCCESS of the link before it was recorded.
C13_ChainPassesResults ==
    (CleanChain /\ AllMutable) =>
        \A k \in Links \ {1} :
            /\ \A args \in seen[k] :
                  args = <<ResultAsArg(result[k - 1])>> \o chain[k].Args
            /\ Published(k) # {} => state[k - 1] = SuccessState

\* C13 witness: the chain of the README has run to its end, the last link
\* invoked with the result of the link before it; with three links the
\* results are 2, 13 and 52.
C13_Witness ==
    /\ CleanChain /\ AllMutable
    /\ state[ChainLen] = SuccessState
    /\ seen[ChainLen] = {<<ResultAsArg(result[ChainLen - 1])>> \o chain[ChainLen].Args}
    /\ ChainLen = 3 => result[ChainLen] = Int64Arg(52)

\* C14: in a chain in which a link fails (its name is not registered, an
\* argument does not coerce, or its task returns an error), no later link
\* is ever published, only the error callbacks of that link are, each with
\* the failure string as its first argument, and once Process has returned
\* for the failed link every one of them has been published.
C14_FailureCutsChain ==
    FailAt # 0 =>
        /\ \A k \in Links : k > FailAt => Published(k) = {}
        /\ \A m \in Arrived :
              body[m].UUID \notin Links =>
                  /\ body[m].UUID \in SeqSet(chain[FailAt].OnError)
                  /\ body[m].Args = <<StringArg(FailureString(FailAt))>>
        /\ (\E m \in done : body[m].UUID = FailAt) =>
              /\ state[FailAt] = FailureState
              /\ \A u \in SeqSet(chain[FailAt].OnError) : Published(u) # {}

\* C14 witness: a link after the first has failed, Process has returned
\* for it, and its two error callbacks are published, one of them already
\* run with the failure string as its argument.
C14_Witness ==
    /\ FailAt > 1
    /\ \E m \in done : body[m].UUID = FailAt
    /\ Len(chain[FailAt].OnError) = 2
    /\ \A u \in SeqSet(chain[FailAt].OnError) : Published(u) # {}
    /\ \E u \in SeqSet(chain[FailAt].OnError) :
          seen[u] = {<<StringArg(FailureString(FailAt))>>}

\* C15: when an immutable task succeeds, its success callback is published
\* with exactly the arguments it was composed with: the result is not
\* prepended and nothing else is changed.
C15_ImmutableKeepsArgs ==
    \A k \in Links \ {1} :
        chain[k - 1].Immutable =>
            \A m \in Published(k) : body[m].Args = chain[k].Args

\* C15 witness: an immutable link has succeeded and the link after it was
\* published and has run with the arguments it was composed with.
C15_Witness ==
    \E k \in Links \ {1} :
        /\ chain[k - 1].Immutable
        /\ state[k - 1] = SuccessState
        /\ Published(k) # {}
        /\ seen[k] = {chain[k].Args}
        /\ state[k] = SuccessState

\* the order of the states; SUCCESS and FAILURE are the terminal ones
StateRank(s) ==
    CASE s = PendingState -> 0
      [] s = ReceivedState -> 1
      [] s = StartedState -> 2
      [] OTHER -> 3
TerminalStates == {SuccessState, FailureState}

=============================================================================
